---- MODULE Spec2Model ----
(***************************************************************************)
(* ProcureWatch: the run orchestrator (core/orchestrator/runner.py), the   *)
(* portal pagination loops (core/portals), the scheduler's run lock        *)
(* (core/scheduler), the per-domain rate limiter (core/fetch/throttling), *)
(* the fetch backends (core/backends), the extraction pipeline             *)
(* (core/extract), the dry-run classification                              *)
(* (ScrapeRunner._persist_opportunity) and change tracking                 *)
(* (core/normalize/diff.py), as state machines.                            *)
(*                                                                         *)
(* Each component has its own specification (SpecRun, SpecSched, ...)      *)
(* over the shared variable tuple; a specification leaves the variables of *)
(* the other components unchanged.                                         *)
(*                                                                         *)
(* Conventions.  Python None and the empty string are both written ""      *)
(* where the code itself treats them alike (_get_first, `x or ""`); a      *)
(* missing integer (max_pages=None, no next page) is written 0, which the  *)
(* code's `a or b` treats like None.                                       *)
(***************************************************************************)
EXTENDS Integers, Sequences, FiniteSets, Bags, TLC

VARIABLES
    \* ---- run orchestrator (ScrapeRunner) ----
    plugin,        \* "generic_table" | "search_form": the page-processing strategy
    dry_run,       \* ScrapeRunner.dry_run
    follow_details, \* RunContext.follow_details, and the listing rows link a detail page
    max_pages,     \* run(max_pages=...) ; 0 is None
    site_pages,    \* how many listing pages the portal has
    pc,            \* position of run(): "idle", "scraping", "items", "returned", "raised"
    url,           \* scrape_all_pages: the url of the next page (its index), 0 is None
    page_num,      \* scrape_all_pages: page_num
    cur_items,     \* the items of the current page not yet processed
    stats,         \* RunStats
    run_status,    \* the ScrapeRun row's status: "NONE" before it is created
    status_log,    \* every status the ScrapeRun row has had, in order
    opps,          \* the opportunities table (committed rows)
    events,        \* the opportunity_events table (committed rows), a bag
    pending_seen,  \* session: ids of rows whose last_seen_at was set but not committed
    fetch_log,     \* the outcome of every listing-page fetch of the run, in order
    exc_raised,    \* history: an exception reached the except branch of run()
    persist_raised, \* history: how many items' _persist_opportunity raised
    session_inactive, \* session: a flush failed and no rollback() was issued since
    persist_skipped, \* history: items that raised only because the session was inactive
    session_state, \* the database session run() works with: "none", "open", "closed"
    opps0,         \* history: the opportunities table when the run started
    now,           \* datetime.utcnow(), a logical clock
    \* -- re-ingestion of one extracted page (two passes over the same page)
    re_page,       \* the extracted page: a sequence of raw items
    re_pass,       \* 1, 2: the pass under way; 3: both passes done; 0: not in use
    re_idx,        \* the index of the next item of the page
    re_types,      \* the event types each pass returned, item by item
    re_now1,       \* the clock reading of the first pass
    \* -- two overlapping runs that persist into the same database
    p_items,       \* per run: the raw items it still has to persist
    p_pc,          \* per run: "lookup", "write" (row read, not yet written), "done"
    p_seen,        \* per run: the rows its look-up returned
    p_result,      \* per run: what _persist_opportunity returned or "RAISED", per item
    \* -- executions of one scheduled job, in one or several scheduler processes
    s_enabled,     \* the ScheduledJob row exists and is enabled
    s_proc,        \* per execution: the scheduler process (its holder_id) that runs it
    s_pc,          \* per execution: its position in execute_scheduled_job
    s_seen,        \* per execution: the RunLock rows the SELECT of acquire returned
    s_read_at,     \* per execution: `now` as acquire computed it
    s_status,      \* per execution: the local `status`
    s_lock,        \* the run_locks rows named schedule:<job>
    s_active,      \* per process: the execution that runs between two awaits, or 0
    s_now,         \* the clock of the scheduler hosts
    s_last_status, \* ScheduledJob.last_status, "" until a run recorded one
    s_runs,        \* per execution: the status its portal runs' ScrapeRun records ended with
    \* -- the rate limiter of one domain, and the requests to that domain
    r_sems,        \* the asyncio.Semaphore objects created so far: their values
    r_current,     \* _semaphores[domain]: an index of r_sems, 0 when absent
    r_config,      \* _domain_configs[domain].max_concurrency, 0 when absent
    r_limits,      \* history: the max_concurrency values the domain has had
    r_nconf,       \* history: the number of configure_domain calls
    r_pc,          \* per request: its position
    r_sem,         \* per request: the local `semaphore` of acquire (index of r_sems)
    r_acquired,    \* per request: acquire() calls that returned
    r_released,    \* per request: release() calls made
    r_fetched,     \* per request: backend.fetch was called
    \* -- one call of a backend's fetch
    f_backend,     \* "http" or "playwright"
    f_max_retries, \* HttpBackend.max_retries
    f_pc,          \* "idle", "attempting", "returned", "raised"; "" when not in use
    f_log,         \* the class of the response of every request attempt, in order
    f_raised,      \* the exception fetch raised, "" when none
    f_status,      \* the class of the FetchResult's status, "" when none
    \* -- one call of ExtractionPipeline.extract on one listing page
    x_threshold,   \* ExtractionPipeline.confidence_threshold, in thousandths
    x_page,        \* the page: its linked-data block, its table, its cards
    x_pc,          \* "idle", "running", "returned"; "" when not in use
    x_idx,         \* how many extractors of the chain have run
    x_ret,         \* the ExtractionResult returned
    \* -- a dry run and a persisting run over the same items and initial store
    d_items,       \* the extracted items, in order
    d_idx,         \* the index of the next item
    d_dry,         \* the dry run: its tables and the session's pending writes
    d_real,        \* the persisting run: its tables and the session's pending writes
    d_types,       \* what _persist_opportunity returned per item: <<dry, persisting>>
    d_now,         \* datetime.utcnow(), the same reading for both runs
    \* -- the pagination loop of one run, with the caller's cap told from None
    g_plugin,      \* "generic_table" | "search_form"
    g_arg,         \* scrape_all_pages(max_pages=...): [given, value]
    g_config,      \* config.discovery.pagination.max_pages
    g_site,        \* how many listing pages the portal has
    g_url,         \* the url of the next page (its index), 0 is None
    g_page_num,    \* page_num
    g_fetched,     \* history: how many listing pages were fetched
    g_elapsed,     \* the time since the run started, in clock ticks
    g_pc,          \* "loop", "done"; "" when not in use
    \* -- the comparison of a stored version with a newly observed one
    v_old,         \* the stored version of the record, None when there is none
    v_new,         \* the newly observed version
    v_event,       \* what detect_event_type returned, "" before the call
    v_diff         \* the DiffResult of the update branch, None before it

\* what a run is given and never changes
runInputs == <<plugin, dry_run, follow_details, max_pages, site_pages, opps0, now>>

runVars == <<runInputs, pc, url, page_num, cur_items, stats, run_status, status_log,
             opps, events, pending_seen, fetch_log, exc_raised, persist_raised, session_inactive,
                   persist_skipped, session_state>>

reVars == <<re_page, re_pass, re_idx, re_types, re_now1>>

pVars == <<p_items, p_pc, p_seen, p_result>>

sVars == <<s_enabled, s_proc, s_pc, s_seen, s_read_at, s_status, s_lock, s_active, s_now,
           s_last_status, s_runs>>

rVars == <<r_sems, r_current, r_config, r_limits, r_nconf, r_pc, r_sem, r_acquired,
           r_released, r_fetched>>

fVars == <<f_backend, f_max_retries, f_pc, f_log, f_raised, f_status>>

xVars == <<x_threshold, x_page, x_pc, x_idx, x_ret>>

dVars == <<d_items, d_idx, d_dry, d_real, d_types, d_now>>

gVars == <<g_plugin, g_arg, g_config, g_site, g_url, g_page_num, g_fetched, g_elapsed, g_pc>>

vVars == <<v_old, v_new, v_event, v_diff>>

vars == <<runVars, reVars, pVars, sVars, rVars, fVars, xVars, dVars, gVars, vVars>>

\* the variables of the components a run of the orchestrator does not touch
otherThanRun == <<reVars, pVars, sVars, rVars, fVars, xVars, dVars, gVars, vVars>>

----------------------------------------------------------------------------
(* Bounds of the model *)

MaxSitePages == 3      \* the largest portal of the general run specification
MaxPageItems == 2      \* items on one listing page
MaxPagesArg == 1       \* the largest max_pages a caller passes
MaxReItems == 2     \* items of the page that is ingested twice
MaxNow == 3         \* the clock stops at this reading
MaxRunItems == 2    \* items each of the two overlapping runs persists
MaxExecs == 2       \* executions of the scheduled job
MaxProcs == 2       \* scheduler processes
MaxSchedNow == 3    \* the scheduler hosts' clock stops at this reading
TtlTicks == 2       \* the lock's ttl_minutes, in clock ticks
MaxRequests == 4    \* requests to the domain
MaxConfigs == 1     \* configure_domain calls
MaxConcurrency == 2 \* the largest max_concurrency configure_domain is given
MaxRetries == 3     \* the largest politeness.max_retries

(* The portal's configured discovery.pagination.max_pages: its default.     *)
ConfigMaxPages == 50

\* RateLimitConfig.max_concurrency, the default
DefaultMaxConcurrency == 2

----------------------------------------------------------------------------
(* Normalisation: core/normalize/canonical.py and parsing.py *)

\* A raw (merged listing + detail) item.  closing is 0 when absent.
RawItem(eid, title, st, closing) ==
    [external_id |-> eid, title |-> title, status |-> st, closing_at |-> closing]

\* hashlib.md5(title.encode()).hexdigest()[:16], as a table on the model's titles
Md5Hex(title) ==
    CASE title = "T1" -> "md5_T1"
      [] title = "T2" -> "md5_T2"
      [] OTHER -> "md5_other"

\* f"unknown_{datetime.utcnow().timestamp()}"
TimestampId(t) ==
    CASE t = 0 -> "unknown_0"
      [] t = 1 -> "unknown_1"
      [] t = 2 -> "unknown_2"
      [] OTHER -> "unknown_3"

\* parse_status on the model's status texts: the first pattern list, in the
\* order of STATUS_PATTERNS, that holds the text decides.
STATUS_PATTERNS ==
    << <<"OPEN", {"open", "active", "pending"}>>,
       <<"CLOSED", {"closed", "ended", "expired"}>>,
       <<"AWARDED", {"awarded", "award"}>>,
       <<"CANCELLED", {"cancelled", "withdrawn"}>>,
       <<"PENDING", {"pending", "under review"}>> >>

RECURSIVE MatchStatus(_, _)
MatchStatus(text, i) ==
    IF i > Len(STATUS_PATTERNS) THEN "UNKNOWN"
    ELSE IF text \in STATUS_PATTERNS[i][2] THEN STATUS_PATTERNS[i][1]
    ELSE MatchStatus(text, i + 1)

parse_status(value) == IF value = "" THEN "UNKNOWN" ELSE MatchStatus(value, 1)

\* The status when no status text was extracted: inferred from the closing
\* date against the clock.
InferStatus(closing, t) ==
    IF closing = 0 THEN "UNKNOWN"
    ELSE IF closing > t THEN "OPEN" ELSE "CLOSED"

\* normalize_opportunity: the canonical record and its warnings
normalize_opportunity(raw, t) ==
    LET synth == raw.external_id = ""
        eid == IF ~synth THEN raw.external_id
               ELSE IF raw.title # "" THEN Md5Hex(raw.title)
               ELSE TimestampId(t)
        warn == IF ~synth THEN <<>>
                ELSE IF raw.title # "" THEN <<"Generated external_id from title hash">>
                ELSE <<"No external_id found, using timestamp">>
    IN [external_id |-> eid,
        title |-> raw.title,
        status |-> IF raw.status # "" THEN parse_status(raw.status)
                   ELSE InferStatus(raw.closing_at, t),
        closing_at |-> raw.closing_at,
        normalization_warnings |-> warn]

\* Python's None where it stands for a whole record
None == [is_none |-> TRUE]

\* dict.get(field): None (written "") when the key is missing
Get(d, field) == IF field \in DOMAIN d THEN d[field] ELSE ""

\* OpportunityCanonical.compute_fingerprint: the digest of the content fields
\* joined in a fixed order.  sha256 is taken as injective on the joined
\* string, so the digest is written as the tuple of the joined parts; a
\* field that a record of the model does not carry (category, agency,
\* estimated_value) is the empty string.
compute_fingerprint(c) ==
    <<c.external_id, c.title, Get(c, "description"), c.status, Get(c, "category"),
      Get(c, "agency"), c.closing_at, Get(c, "estimated_value")>>

\* The fields with their change significance, for the fields that the
\* model's records carry
FIELD_SIGNIFICANCE ==
    [title |-> "high", status |-> "high", closing_at |-> "high", awardee |-> "high",
     description |-> "medium", location |-> "low"]

\* _values_differ: None and the empty string are the same absent value
_values_differ(old, new) == old # new

\* compute_fingerprint of a dictionary: the content fields in fixed order
DictFingerprint(opp) ==
    <<Get(opp, "external_id"), Get(opp, "title"), Get(opp, "description"),
      Get(opp, "status"), Get(opp, "category"), Get(opp, "agency"),
      Get(opp, "closing_at"), Get(opp, "estimated_value")>>

\* compute_diff: the changed fields and whether one of them is high-tier
compute_diff(old, new) ==
    IF DictFingerprint(old) = DictFingerprint(new)
    THEN [changes |-> {}, is_significant |-> FALSE]
    ELSE LET changes == {field \in DOMAIN FIELD_SIGNIFICANCE :
                            _values_differ(Get(old, field), Get(new, field))}
         IN [changes |-> changes,
             is_significant |->
                 \E field \in changes : FIELD_SIGNIFICANCE[field] = "high"]

\* A variant that reports a status transition only for CLOSED
detect_event_type_ClosedOnly(old, new) ==
    IF old = None THEN "NEW"
    ELSE IF Get(old, "status") # Get(new, "status") /\ Get(new, "status") = "CLOSED"
    THEN "CLOSED"
    ELSE "UPDATED"

\* detect_event_type(old, new)
detect_event_type(old, new) ==
    IF old = None THEN "NEW"
    ELSE LET new_status == Get(new, "status")
             old_status == Get(old, "status")
         IN IF old_status # new_status /\ new_status \in {"CLOSED", "AWARDED", "EXPIRED"}
            THEN new_status
            ELSE IF compute_diff(old, new).changes # {} THEN "UPDATED" ELSE "UPDATED"

\* The dictionary _persist_opportunity builds from the stored row
OldDataKeys ==
    {"external_id", "title", "description", "status", "category", "agency",
     "closing_at", "estimated_value"}

old_data(existing) ==
    [field \in DOMAIN existing \cap OldDataKeys |-> existing[field]]

----------------------------------------------------------------------------
(* The session and the tables *)

\* A variant of the row that does not store the fingerprint it was given
OppRow_StaleFingerprint(c, fp, t) ==
    [external_id |-> c.external_id, fingerprint |-> <<>>, title |-> c.title,
     status |-> c.status, closing_at |-> c.closing_at, last_seen_at |-> t]

\* A row of the opportunities table
OppRow(c, fp, t) ==
    [external_id |-> c.external_id, fingerprint |-> fp, title |-> c.title,
     status |-> c.status, closing_at |-> c.closing_at, last_seen_at |-> t]

\* session.query(Opportunity).filter(portal_id, external_id).first()
Existing(table, eid) == {r \in table : r.external_id = eid}

\* session.commit(): the flush writes every attribute set on a loaded row
\* since the last commit; here, the last_seen_at of the rows in `pending`.
Commit(table, pending, t) ==
    {IF r.external_id \in pending THEN [r EXCEPT !.last_seen_at = t] ELSE r : r \in table}

\* session.add(OpportunityEvent(...)): the events table is a bag of
\* (opportunity, event_type) rows
AddEvent(evs, eid, type) == evs (+) SetToBag({[opportunity |-> eid, event_type |-> type]})

\* ScrapeRunner._persist_opportunity: the event type it returns, and the
\* tables and the session it leaves.
_persist_opportunity(dry, table, evs, pending, raw, t) ==
    LET c == normalize_opportunity(raw, t)
        fp == compute_fingerprint(c)
        ex == Existing(table, c.external_id)
        old == CHOOSE r \in ex : TRUE
        seen == pending \cup {c.external_id}
    IN IF ex # {}
       THEN IF old.fingerprint = fp
            THEN \* existing.last_seen_at = utcnow(), then commit unless dry_run
                 IF dry
                 THEN [type |-> "UNCHANGED", opps |-> table, events |-> evs,
                       pending |-> seen]
                 ELSE [type |-> "UNCHANGED", opps |-> Commit(table, seen, t),
                       events |-> evs, pending |-> {}]
            ELSE IF dry
                 THEN [type |-> "UPDATED", opps |-> table, events |-> evs,
                       pending |-> pending]
                 ELSE [type |-> "UPDATED",
                       opps |-> Commit((table \ ex) \cup {OppRow(c, fp, t)}, pending, t),
                       events |-> AddEvent(evs, c.external_id,
                                           detect_event_type(old_data(old), c)),
                       pending |-> {}]
       ELSE IF dry
            THEN [type |-> "NEW", opps |-> table, events |-> evs, pending |-> pending]
            ELSE [type |-> "NEW",
                  opps |-> Commit(table \cup {OppRow(c, fp, t)}, pending, t),
                  events |-> AddEvent(evs, c.external_id, "NEW"),
                  pending |-> {}]

----------------------------------------------------------------------------
(* The run orchestrator: ScrapeRunner.run, _execute_scrape, and the        *)
(* plugins' scrape_all_pages / scrape_listing_page                         *)

SeqsUpTo(S, n) == UNION {[1..k -> S] : k \in 0..n}

\* The records an extractor can return for a listing row in the model: the
\* same identifier with two contents, a row without identifier (its id is
\* synthesized from the title; no status text, closing date 2), and a row
\* with neither identifier nor title.
ExtractedRecords ==
    {RawItem("A", "T1", "open", 0), RawItem("A", "T2", "open", 0),
     RawItem("", "T1", "", 2), RawItem("", "", "", 0)}

\* ListingItem.has_id
has_id(rec) == rec.external_id # "" \/ rec.title # ""

\* scrape_listing_page keeps only the items with some identifying information
ListingItems(records) == SelectSeq(records, has_id)

RunStats ==
    [pages_scraped |-> 0, pages_failed |-> 0, opportunities_found |-> 0,
     opportunities_new |-> 0, opportunities_updated |-> 0,
     opportunities_unchanged |-> 0, errors_count |-> 0, warnings |-> <<>>]

\* The stores a run can start from: empty, or holding the row a previous
\* run (at time 0) stored for RawItem("A", "T1", "open", 0).
BaselineRow ==
    LET c == normalize_opportunity(RawItem("A", "T1", "open", 0), 0)
    IN OppRow(c, compute_fingerprint(c), 0)

BaselineStores == {{}, {BaselineRow}}

\* scrape_all_pages: max_pages = max_pages or config.discovery.pagination.max_pages
EffectiveMaxPages(arg) == IF arg # 0 THEN arg ELSE ConfigMaxPages

\* scrape_all_pages: the loop condition, `while url and page_num < max_pages`
\* (SearchFormPortal breaks out of its loop instead of clearing a url; the
\* model clears url for it as well)
LoopContinues == url # 0 /\ page_num < EffectiveMaxPages(max_pages)

\* The link to the next page that a fetched page of the site carries
NextLink == IF url < site_pages THEN url + 1 ELSE 0

\* The url scrape_all_pages goes on with after a page whose fetch succeeded.
\* GenericTablePortal follows the page's next link; SearchFormPortal stops
\* after a page with errors or without items.
NextPageUrl(kind, failed, items) ==
    IF kind = "search_form" /\ (failed \/ items = <<>>) THEN 0 ELSE NextLink

RunInit(sizes) ==
    /\ plugin \in {"generic_table", "search_form"}
    /\ dry_run \in BOOLEAN
    /\ max_pages \in 0..MaxPagesArg
    /\ site_pages \in sizes
    /\ pc = "idle"
    /\ url = 0
    /\ page_num = 0
    /\ cur_items = <<>>
    /\ stats = RunStats
    /\ run_status = "NONE"
    /\ status_log = <<>>
    /\ opps \in BaselineStores
    /\ opps0 = opps
    /\ events = EmptyBag
    /\ pending_seen = {}
    /\ fetch_log = <<>>
    /\ exc_raised = FALSE
    /\ persist_raised = 0
    /\ session_inactive = FALSE
    /\ persist_skipped = 0
    /\ session_state = "none"
    /\ now = 1

\* The re-ingestion component when it is not in use
ReIdle ==
    /\ re_page = <<>>
    /\ re_pass = 0
    /\ re_idx = 0
    /\ re_types = <<>>
    /\ re_now1 = 0

\* The overlapping-runs component when it is not in use
PersistIdle ==
    /\ p_items = <<>>
    /\ p_pc = <<>>
    /\ p_seen = <<>>
    /\ p_result = <<>>

\* The scheduler component when it is not in use
SchedIdle ==
    /\ s_enabled = FALSE
    /\ s_proc = <<>>
    /\ s_pc = <<>>
    /\ s_seen = <<>>
    /\ s_read_at = <<>>
    /\ s_status = <<>>
    /\ s_lock = {}
    /\ s_active = <<>>
    /\ s_now = 0
    /\ s_last_status = ""
    /\ s_runs = <<>>

\* The rate limiter component when it is not in use
RateIdle ==
    /\ r_sems = <<>>
    /\ r_current = 0
    /\ r_config = 0
    /\ r_limits = {}
    /\ r_nconf = 0
    /\ r_pc = <<>>
    /\ r_sem = <<>>
    /\ r_acquired = <<>>
    /\ r_released = <<>>
    /\ r_fetched = <<>>

\* The fetch component when it is not in use
FetchIdle ==
    /\ f_backend = ""
    /\ f_max_retries = 0
    /\ f_pc = ""
    /\ f_log = <<>>
    /\ f_raised = ""
    /\ f_status = ""

\* The extraction pipeline when it is not in use
ExtractIdle ==
    /\ x_threshold = 0
    /\ x_page = <<>>
    /\ x_pc = ""
    /\ x_idx = 0
    /\ x_ret = <<>>

\* The comparison of a dry run with a persisting run when it is not in use
DryCompareIdle ==
    /\ d_items = <<>>
    /\ d_idx = 0
    /\ d_dry = <<>>
    /\ d_real = <<>>
    /\ d_types = <<>>
    /\ d_now = 0

\* The pagination loop when it is not in use
PaginateIdle ==
    /\ g_plugin = ""
    /\ g_arg = <<>>
    /\ g_config = 0
    /\ g_site = 0
    /\ g_url = 0
    /\ g_page_num = 0
    /\ g_fetched = 0
    /\ g_elapsed = 0
    /\ g_pc = ""

\* The version comparison, not in use
DiffIdle ==
    /\ v_old = None
    /\ v_new = None
    /\ v_event = ""
    /\ v_diff = None

\* The components other than the run orchestrator, not in use
OthersIdle ==
    ReIdle /\ PersistIdle /\ SchedIdle /\ RateIdle /\ FetchIdle /\ ExtractIdle
        /\ DryCompareIdle /\ PaginateIdle /\ DiffIdle

InitRun == RunInit(1..MaxSitePages) /\ follow_details = FALSE /\ OthersIdle

\* ScrapeRunner(config, dry_run=dry_run): no caller passes a session, so
\* self._session is None and run() opens the session with get_sync_session()
session_given == FALSE

\* self._owns_session = session is None
_owns_session == ~session_given

\* The finally block of run(): `if self._owns_session and self._session:
\* self._session.close()`.  self._session is the constructor's argument; the
\* session that run() opened is the local `session`.
Finally ==
    session_state' = IF _owns_session /\ session_given THEN "closed" ELSE session_state

\* run(), up to the call of _execute_scrape: the run record is created
\* RUNNING and committed; scrape_all_pages starts at the first seed url.
RunBegin ==
    /\ pc = "idle"
    /\ pc' = "scraping"
    /\ run_status' = "RUNNING"
    /\ status_log' = Append(status_log, "RUNNING")
    /\ url' = 1
    /\ page_num' = 0
    /\ session_state' = IF session_given THEN session_state ELSE "open"
    /\ UNCHANGED <<otherThanRun, runInputs, cur_items, stats, opps, events, pending_seen, fetch_log,
                   exc_raised, persist_raised, session_inactive,
                   persist_skipped>>

\* One iteration of scrape_all_pages whose fetch and extraction succeed, and
\* the head of the loop body of _execute_scrape.
FetchPageOk ==
    /\ pc = "scraping"
    /\ LoopContinues
    /\ \E records \in SeqsUpTo(ExtractedRecords, MaxPageItems) \ {<<>>} :
         LET items == ListingItems(records)
         IN /\ cur_items' = items
            /\ pc' = IF items = <<>> THEN "scraping" ELSE "items"
            /\ url' = NextPageUrl(plugin, FALSE, items)
    /\ page_num' = page_num + 1
    /\ stats' = [stats EXCEPT !.pages_scraped = @ + 1]
    /\ fetch_log' = Append(fetch_log, "ok")
    /\ UNCHANGED <<otherThanRun, runInputs, session_state, run_status, status_log, opps, events, pending_seen,
                   exc_raised, persist_raised, session_inactive,
                   persist_skipped>>

\* One iteration whose fetch fails (the backend raised, a non-2xx status, or
\* an empty body): scrape_listing_page returns a PageResult with one error
\* and no next_page_url; _execute_scrape counts the page as failed.
FetchPageFails ==
    /\ pc = "scraping"
    /\ LoopContinues
    /\ page_num' = page_num + 1
    /\ stats' = [stats EXCEPT !.pages_scraped = @ + 1, !.pages_failed = @ + 1,
                              !.errors_count = @ + 1]
    /\ url' = 0
    /\ fetch_log' = Append(fetch_log, "failed")
    /\ UNCHANGED <<otherThanRun, runInputs, session_state, pc, cur_items, run_status, status_log, opps, events,
                   pending_seen, exc_raised, persist_raised, session_inactive,
                   persist_skipped>>

\* One iteration whose fetch succeeds and whose extraction fails: the page
\* carries the pipeline's errors (at least "All extraction strategies
\* failed") and no items; GenericTablePortal still detects the next link.
ExtractionFails ==
    /\ pc = "scraping"
    /\ LoopContinues
    /\ page_num' = page_num + 1
    /\ \E nerr \in 1..2 :
         stats' = [stats EXCEPT !.pages_scraped = @ + 1, !.pages_failed = @ + 1,
                                !.errors_count = @ + nerr]
    /\ url' = NextPageUrl(plugin, TRUE, <<>>)
    /\ fetch_log' = Append(fetch_log, "ok")
    /\ UNCHANGED <<otherThanRun, runInputs, session_state, pc, cur_items, run_status, status_log, opps, events,
                   pending_seen, exc_raised, persist_raised, session_inactive,
                   persist_skipped>>

\* A variant of the except branch that commits without marking the record
RunFails_KeepsRunning ==
    /\ stats' = [stats EXCEPT !.errors_count = @ + 1]
    /\ UNCHANGED <<run_status, status_log>>
    /\ session_inactive' = FALSE
    /\ opps' = Commit(opps, pending_seen, now)
    /\ pending_seen' = {}
    /\ pc' = "returned"
    /\ Finally

\* The except branch of run(): the run is marked FAILED and the session is
\* committed; then the finally block, and run() returns.
RunFails ==
    /\ stats' = [stats EXCEPT !.errors_count = @ + 1]
    /\ IF session_inactive
       THEN \* the commit of the except branch raises PendingRollbackError:
            \* run() raises and the stored record stays as it was
            /\ UNCHANGED <<run_status, status_log, opps>>
            /\ pc' = "raised"
       ELSE /\ run_status' = "FAILED"
            /\ status_log' = Append(status_log, "FAILED")
            /\ opps' = Commit(opps, pending_seen, now)
            /\ pc' = "returned"
    /\ pending_seen' = {}
    /\ session_inactive' = FALSE
    /\ Finally

\* An exception that the plugin does not catch leaves scrape_all_pages (the
\* extraction or the pagination detection raised, the browser failed).
ScrapeRaises ==
    /\ pc = "scraping"
    /\ LoopContinues
    /\ exc_raised' = TRUE
    /\ RunFails
    /\ page_num' = page_num + 1
    /\ UNCHANGED <<otherThanRun, runInputs, url, cur_items, events, fetch_log, persist_raised,
                   persist_skipped>>

\* A variant that counts only the NEW and UPDATED classifications
CountEvent_ChangesOnly(st, type) ==
    IF type = "NEW" THEN [st EXCEPT !.opportunities_new = @ + 1]
    ELSE IF type = "UPDATED" THEN [st EXCEPT !.opportunities_updated = @ + 1]
    ELSE st

\* The counters of _execute_scrape after _persist_opportunity returned `type`
CountEvent(st, type) ==
    IF type = "NEW" THEN [st EXCEPT !.opportunities_new = @ + 1]
    ELSE IF type = "UPDATED" THEN [st EXCEPT !.opportunities_updated = @ + 1]
    ELSE [st EXCEPT !.opportunities_unchanged = @ + 1]

\* The body of `for item in page.items` for one item.  When detail pages
\* are followed and scrape_detail_page raises, a warning is recorded and the
\* item is persisted from its listing data.  The outcome "raises"
\* is an exception inside _persist_opportunity before it writes anything;
\* "flush_fails" is a database error at the flush or commit of its writes
\* (a constraint violation, a locked database), after which the Session
\* refuses every operation until rollback() is called.
PersistItem ==
    /\ pc = "items"
    /\ \E outcome \in {"ok", "raises", "flush_fails"}, detail_failed \in {FALSE, follow_details} :
         LET item == Head(cur_items)
             res == _persist_opportunity(dry_run, opps, events, pending_seen, item, now)
             found == [stats EXCEPT !.opportunities_found = @ + 1,
                                    !.warnings = IF detail_failed
                                                 THEN Append(@, "Detail page failed")
                                                 ELSE @]
         IN \/ \* the session is inactive: the query raises PendingRollbackError
               /\ session_inactive
               /\ outcome = "raises"
               /\ stats' = [found EXCEPT !.errors_count = @ + 1]
               /\ persist_raised' = persist_raised + 1
               /\ persist_skipped' = persist_skipped + 1
               /\ UNCHANGED <<opps, events, pending_seen, session_inactive>>
            \/ \* the normalisation or the construction of the row raises
               /\ ~session_inactive
               /\ outcome = "raises"
               /\ stats' = [found EXCEPT !.errors_count = @ + 1]
               /\ persist_raised' = persist_raised + 1
               /\ UNCHANGED <<opps, events, pending_seen, session_inactive, persist_skipped>>
            \/ \* the flush of the item's writes fails in the database; the
               \* except branch of _execute_scrape issues no rollback()
               /\ ~session_inactive
               /\ ~dry_run
               /\ outcome = "flush_fails"
               /\ stats' = [found EXCEPT !.errors_count = @ + 1]
               /\ persist_raised' = persist_raised + 1
               /\ session_inactive' = TRUE
               /\ pending_seen' = {}
               /\ UNCHANGED <<opps, events, persist_skipped>>
            \/ /\ ~session_inactive
               /\ outcome = "ok"
               /\ stats' = CountEvent(found, res.type)
               /\ opps' = res.opps
               /\ events' = res.events
               /\ pending_seen' = res.pending
               /\ UNCHANGED <<persist_raised, session_inactive, persist_skipped>>
    /\ cur_items' = Tail(cur_items)
    /\ pc' = IF Tail(cur_items) = <<>> THEN "scraping" ELSE "items"
    /\ UNCHANGED <<otherThanRun, runInputs, session_state, url, page_num, run_status, status_log, fetch_log,
                   exc_raised>>

\* A variant of the end of run() that fails a run whose pages failed
RunCompletes_FailsOnPageErrors ==
    /\ pc = "scraping"
    /\ ~LoopContinues
    /\ ~session_inactive
    /\ LET final == IF stats.pages_failed > 0 THEN "FAILED" ELSE "COMPLETED"
       IN /\ run_status' = final
          /\ status_log' = Append(status_log, final)
    /\ opps' = Commit(opps, pending_seen, now)
    /\ pending_seen' = {}
    /\ pc' = "returned"
    /\ Finally
    /\ UNCHANGED <<otherThanRun, runInputs, url, page_num, cur_items, stats, events, fetch_log,
                   exc_raised, persist_raised, session_inactive,
                   persist_skipped>>

\* scrape_all_pages is exhausted: run() marks the run COMPLETED, commits the
\* session, runs the finally block and returns.
RunCompletes ==
    /\ pc = "scraping"
    /\ ~LoopContinues
    /\ ~session_inactive
    /\ run_status' = "COMPLETED"
    /\ status_log' = Append(status_log, "COMPLETED")
    /\ opps' = Commit(opps, pending_seen, now)
    /\ pending_seen' = {}
    /\ pc' = "returned"
    /\ Finally
    /\ UNCHANGED <<otherThanRun, runInputs, url, page_num, cur_items, stats, events, fetch_log,
                   exc_raised, persist_raised, session_inactive,
                   persist_skipped>>

\* scrape_all_pages is exhausted with the session inactive: the commit that
\* would store COMPLETED raises PendingRollbackError, which run() catches.
RunCommitRaises ==
    /\ pc = "scraping"
    /\ ~LoopContinues
    /\ session_inactive
    /\ exc_raised' = TRUE
    /\ RunFails
    /\ UNCHANGED <<otherThanRun, runInputs, url, page_num, cur_items, events, fetch_log,
                   persist_raised, persist_skipped>>

NextRun ==
    \/ RunBegin
    \/ FetchPageOk
    \/ FetchPageFails
    \/ ExtractionFails
    \/ ScrapeRaises
    \/ PersistItem
    \/ RunCompletes
    \/ RunCommitRaises

SpecRun == InitRun /\ [][NextRun]_vars

\* The scenario of the orchestrator's five-page test: a portal of five pages
InitFivePages == RunInit({5}) /\ follow_details = FALSE /\ OthersIdle

SpecFivePages == InitFivePages /\ [][NextRun]_vars

\* A run over a one-page portal that follows the detail links of its rows
InitFollowDetails == RunInit({1}) /\ follow_details = TRUE /\ OthersIdle

SpecFollowDetails == InitFollowDetails /\ [][NextRun]_vars

----------------------------------------------------------------------------
(* C1 (as claimed): in a five-page run where the fetch of page 3 fails and *)
(* no other fetch, extraction or item fails, the run goes on to fetch      *)
(* pages 4 and 5 and ends COMPLETED with pages_failed = 1 and the items of *)
(* the four other pages persisted.                                         *)
C1_FivePageRun ==
    (/\ pc = "returned"
     /\ site_pages = 5 /\ max_pages = 0 /\ ~dry_run
     /\ Len(fetch_log) >= 3
     /\ fetch_log[1] = "ok" /\ fetch_log[2] = "ok" /\ fetch_log[3] = "failed"
     /\ \A i \in 4..Len(fetch_log) : fetch_log[i] = "ok"
     /\ ~exc_raised /\ persist_raised = 0 /\ stats.errors_count = 1)
    => (/\ Len(fetch_log) = 5
        /\ run_status = "COMPLETED"
        /\ stats.pages_failed = 1
        /\ stats.pages_scraped = 5)

C12_OnlyFailedItemAbandoned ==
    /\ persist_skipped = 0
    /\ pc # "raised"

\* A step of the run in which a fetched page exhausted every extractor: the
\* fetch is logged ok and the page is counted as failed
ExhaustedPageStep ==
    /\ fetch_log' = Append(fetch_log, "ok")
    /\ stats'.pages_failed = stats.pages_failed + 1

(* C15 (as claimed): a page on which every extractor fails the threshold   *)
(* is a non-fatal outcome after which the run goes on to the next page:    *)
(* the run stays RUNNING and pagination continues with the page's next     *)
(* link.                                                                   *)
C15_ExhaustedPageGoesOn ==
    [][ExhaustedPageStep =>
          /\ run_status' = "RUNNING"
          /\ ~exc_raised'
          /\ url' = NextLink]_vars

\* Every row of `before` is a row of `after`, its last_seen_at apart
RowsKept(before, after) ==
    \A r \in before : \E k \in after :
        /\ k.external_id = r.external_id
        /\ k.fingerprint = r.fingerprint
        /\ k.title = r.title /\ k.status = r.status /\ k.closing_at = r.closing_at

\* A step in which an exception reaches the except branch of run()
ExceptionEndsRun == ~exc_raised /\ exc_raised'

(* C21 (as claimed): when an unhandled exception ends a run, the run is    *)
(* marked FAILED and every opportunity row and event persisted before the  *)
(* exception is still stored afterwards.                                   *)
C21_FailedAndPriorPagesKept ==
    [][ExceptionEndsRun =>
          /\ run_status' = "FAILED"
          /\ RowsKept(opps, opps')
          /\ events' = events]_vars

\* The warnings normalize_opportunity records when it synthesizes the id
SynthesisWarnings ==
    {"Generated external_id from title hash", "No external_id found, using timestamp"}

\* A step of _execute_scrape in which _persist_opportunity normalized an
\* item without external_id and returned its classification
SynthesizedItemStep ==
    /\ pc = "items"
    /\ normalize_opportunity(Head(cur_items), now).normalization_warnings # <<>>
    /\ stats'.opportunities_found = stats.opportunities_found + 1
    /\ stats'.errors_count = stats.errors_count

(* C24 (as claimed): whenever normalization synthesizes an external_id, the *)
(* normalization warning is in the warnings the run reports.                *)
C24_SynthesisWarningSurfaced ==
    [][SynthesizedItemStep =>
          \E i \in DOMAIN stats'.warnings : stats'.warnings[i] \in SynthesisWarnings]_vars

(* C28 (as claimed): a run that opened its own database session has       *)
(* closed it by the time run() returns or raises.                          *)
C28_OwnSessionClosed ==
    (pc \in {"returned", "raised"} /\ _owns_session) => session_state = "closed"

(* C30: at the end of every run, opportunities_found equals                *)
(* opportunities_new + opportunities_updated + opportunities_unchanged +   *)
(* the number of items whose persistence raised.                           *)
C30_FoundIsSumOfOutcomes ==
    pc \in {"returned", "raised"} =>
        stats.opportunities_found =
            stats.opportunities_new + stats.opportunities_updated
                + stats.opportunities_unchanged + persist_raised

\* A finished run with a new item, an unchanged item and an item that raised
C30_Witness ==
    /\ pc = "returned"
    /\ stats.opportunities_new >= 1
    /\ stats.opportunities_unchanged >= 1
    /\ persist_raised >= 1

(* C7 (as claimed): in dry-run mode no opportunity row is inserted or      *)
(* modified and no opportunity event is added.                             *)
C7_DryRunWritesNothing ==
    dry_run => (opps = opps0 /\ events = EmptyBag)

----------------------------------------------------------------------------
(* Re-ingestion: the same extracted page is fed twice through              *)
(* _persist_opportunity (normalize, fingerprint, compare, write), the      *)
(* second pass against the store the first pass left.                      *)

\* The run variables that re-ingestion does not use, at rest
RunAtRest ==
    /\ plugin = "generic_table"
    /\ follow_details = FALSE
    /\ max_pages = 0
    /\ site_pages = 1
    /\ pc = "idle"
    /\ url = 0
    /\ page_num = 0
    /\ cur_items = <<>>
    /\ stats = RunStats
    /\ run_status = "NONE"
    /\ status_log = <<>>
    /\ fetch_log = <<>>
    /\ exc_raised = FALSE
    /\ persist_raised = 0
    /\ session_inactive = FALSE
    /\ persist_skipped = 0
    /\ session_state = "none"

\* The run orchestrator and its tables, not in use
RunIdle ==
    /\ RunAtRest
    /\ dry_run = FALSE
    /\ opps = {}
    /\ opps0 = {}
    /\ events = EmptyBag
    /\ pending_seen = {}
    /\ now = 0

reFrame == <<plugin, follow_details, max_pages, site_pages, pc, url, page_num, cur_items, stats,
             run_status, status_log, fetch_log, exc_raised, persist_raised, session_inactive, persist_skipped, session_state, opps0,
             dry_run, re_page, pVars, sVars, rVars, fVars, xVars, dVars, gVars, vVars>>

InitReingest ==
    /\ RunAtRest
    /\ PersistIdle
    /\ SchedIdle
    /\ RateIdle
    /\ FetchIdle
    /\ ExtractIdle
    /\ DryCompareIdle
    /\ PaginateIdle
    /\ DiffIdle
    /\ dry_run \in BOOLEAN
    /\ opps \in BaselineStores
    /\ opps0 = opps
    /\ events = EmptyBag
    /\ pending_seen = {}
    /\ now = 1
    /\ re_page \in {ListingItems(r) : r \in SeqsUpTo(ExtractedRecords, MaxReItems)} \ {<<>>}
    /\ re_pass = 1
    /\ re_idx = 1
    /\ re_types = << <<>>, <<>> >>
    /\ re_now1 = 1

\* One item of the page goes through _persist_opportunity
ReFeedItem ==
    /\ re_pass \in {1, 2}
    /\ re_idx <= Len(re_page)
    /\ LET res == _persist_opportunity(dry_run, opps, events, pending_seen,
                                       re_page[re_idx], now)
       IN /\ opps' = res.opps
          /\ events' = res.events
          /\ pending_seen' = res.pending
          /\ re_types' = [re_types EXCEPT ![re_pass] = Append(@, res.type)]
    /\ re_idx' = re_idx + 1
    /\ UNCHANGED <<reFrame, now, re_pass, re_now1>>

\* The page is exhausted: the run commits its session and ends
ReEndPass ==
    /\ re_pass \in {1, 2}
    /\ re_idx > Len(re_page)
    /\ opps' = Commit(opps, pending_seen, now)
    /\ pending_seen' = {}
    /\ re_pass' = re_pass + 1
    /\ re_idx' = 1
    /\ re_now1' = IF re_pass = 1 THEN now ELSE re_now1
    /\ UNCHANGED <<reFrame, now, events, re_types>>

\* Time passes between the two passes
ReTick ==
    /\ re_pass = 2
    /\ re_idx = 1
    /\ now < MaxNow
    /\ now' = now + 1
    /\ UNCHANGED <<reFrame, opps, events, pending_seen, re_pass, re_idx, re_types, re_now1>>

NextReingest ==
    \/ ReFeedItem
    \/ ReEndPass
    \/ ReTick

SpecReingest == InitReingest /\ [][NextReingest]_vars

\* The canonical record of item i of the page, normalized at clock reading t
ReCanon(i, t) == normalize_opportunity(re_page[i], t)

\* Item i normalizes to the same content in both passes
ReStable(i) ==
    compute_fingerprint(ReCanon(i, re_now1)) = compute_fingerprint(ReCanon(i, now))

\* No item of the page carries the external_id of item i with other content
ReUnique(i) ==
    \A j \in 1..Len(re_page) : \A t \in {re_now1, now} :
        ReCanon(j, t).external_id = ReCanon(i, t).external_id
            => compute_fingerprint(ReCanon(j, t)) = compute_fingerprint(ReCanon(i, t))

(* C8 (as claimed): when the same extracted page has been fed twice, every *)
(* item of the page was classified UNCHANGED the second time.              *)
C8_SecondPassUnchanged ==
    re_pass = 3 => \A i \in 1..Len(re_page) : re_types[2][i] = "UNCHANGED"

(* C8 (amended): when the first pass persisted its results (not a dry run), *)
(* the second pass classifies as UNCHANGED every item that normalizes to   *)
(* the same content in both passes and whose external_id no other item of  *)
(* the page carries with different content.                                *)
C8_SecondPassUnchangedAmended ==
    (re_pass = 3 /\ ~dry_run) =>
        \A i \in 1..Len(re_page) :
            (ReStable(i) /\ ReUnique(i)) => re_types[2][i] = "UNCHANGED"

C8_Witness ==
    /\ re_pass = 3 /\ ~dry_run /\ now > re_now1
    /\ \E i \in 1..Len(re_page) :
         /\ ReStable(i) /\ ReUnique(i)
         /\ re_types[1][i] = "UPDATED"
         /\ re_types[2][i] = "UNCHANGED"

----------------------------------------------------------------------------
(* Overlapping runs: two ScrapeRunner.run() executions (a manual run and a *)
(* scheduled one, or two processes), each with its own session, persist    *)
(* into the same opportunities table.  _persist_opportunity is two steps:  *)
(* the query for the existing row, then the compare and the write with its *)
(* commit; nothing in the code orders the steps of one run against those   *)
(* of the other.                                                            *)

Runs == {1, 2}

\* The items the two runs observe: the same identifier with several contents
ObservedItems ==
    {RawItem("A", "T1", "open", 0), RawItem("A", "T2", "open", 0),
     RawItem("A", "T1", "closed", 0)}

persistFrame == <<plugin, follow_details, max_pages, site_pages, pc, url, page_num, cur_items, stats,
                  run_status, status_log, fetch_log, exc_raised, persist_raised, session_inactive, persist_skipped, session_state, opps0,
                  dry_run, pending_seen, now, reVars, sVars, rVars, fVars, xVars, dVars, gVars, vVars>>

InitPersist ==
    /\ RunAtRest
    /\ ReIdle
    /\ SchedIdle
    /\ RateIdle
    /\ FetchIdle
    /\ ExtractIdle
    /\ DryCompareIdle
    /\ PaginateIdle
    /\ DiffIdle
    /\ dry_run = FALSE
    /\ opps \in BaselineStores
    /\ opps0 = opps
    /\ events = EmptyBag
    /\ pending_seen = {}
    /\ now = 1
    /\ p_items \in [Runs -> SeqsUpTo(ObservedItems, MaxRunItems) \ {<<>>}]
    /\ p_pc = [r \in Runs |-> "lookup"]
    /\ p_seen = [r \in Runs |-> {}]
    /\ p_result = [r \in Runs |-> <<>>]

\* The fingerprint of the content a row holds
RowFingerprint(row) ==
    <<row.external_id, row.title, "", row.status, "", "", row.closing_at, "">>

\* The UPDATE the flush emits for a loaded row: the columns whose assigned
\* value differs from the loaded one, applied to the row as it is now
FlushUpdate(cur, loaded, c, fp, t) ==
    [external_id |-> cur.external_id,
     fingerprint |-> fp,
     title |-> IF c.title # loaded.title THEN c.title ELSE cur.title,
     status |-> IF c.status # loaded.status THEN c.status ELSE cur.status,
     closing_at |-> IF c.closing_at # loaded.closing_at THEN c.closing_at ELSE cur.closing_at,
     last_seen_at |-> t]

\* _persist_opportunity, first step: the query for the existing row
PersistLookup(r) ==
    /\ p_pc[r] = "lookup"
    /\ p_items[r] # <<>>
    /\ p_seen' = [p_seen EXCEPT ![r] =
                    Existing(opps, normalize_opportunity(Head(p_items[r]), now).external_id)]
    /\ p_pc' = [p_pc EXCEPT ![r] = "write"]
    /\ UNCHANGED <<persistFrame, opps, events, p_items, p_result>>

\* _persist_opportunity, second step: compare with the row that was read
\* and write.  The INSERT of a row whose (portal_id, external_id) is already
\* in the table violates uq_portal_external_id: the flush raises and
\* _execute_scrape counts "Persist failed".
PersistWrite(r) ==
    /\ p_pc[r] = "write"
    /\ LET c == normalize_opportunity(Head(p_items[r]), now)
           fp == compute_fingerprint(c)
           loaded == CHOOSE row \in p_seen[r] : TRUE
           cur == Existing(opps, c.external_id)
           type == IF p_seen[r] = {} THEN (IF cur = {} THEN "NEW" ELSE "RAISED")
                   ELSE IF loaded.fingerprint = fp THEN "UNCHANGED" ELSE "UPDATED"
       IN /\ opps' = CASE type = "NEW" -> opps \cup {OppRow(c, fp, now)}
                       [] type = "RAISED" -> opps
                       [] type = "UNCHANGED" ->
                            (opps \ cur) \cup {[row EXCEPT !.last_seen_at = now] : row \in cur}
                       [] OTHER ->
                            (opps \ cur) \cup {FlushUpdate(row, loaded, c, fp, now) : row \in cur}
          /\ events' = CASE type = "NEW" -> AddEvent(events, c.external_id, "NEW")
                         [] type = "UPDATED" ->
                              AddEvent(events, c.external_id, detect_event_type(loaded, c))
                         [] OTHER -> events
          /\ p_result' = [p_result EXCEPT ![r] = Append(@, type)]
    /\ p_items' = [p_items EXCEPT ![r] = Tail(@)]
    /\ p_pc' = [p_pc EXCEPT ![r] = IF Tail(p_items[r]) = <<>> THEN "done" ELSE "lookup"]
    /\ p_seen' = [p_seen EXCEPT ![r] = {}]
    /\ UNCHANGED persistFrame

NextPersist ==
    \/ \E r \in Runs : PersistLookup(r)
    \/ \E r \in Runs : PersistWrite(r)

SpecPersist == InitPersist /\ [][NextPersist]_vars

\* Two runs are between the look-up and the write of the same record
Interleaved ==
    \E r1, r2 \in Runs :
        /\ r1 # r2
        /\ p_pc[r1] = "write" /\ p_pc[r2] = "write"
        /\ normalize_opportunity(Head(p_items[r1]), now).external_id
             = normalize_opportunity(Head(p_items[r2]), now).external_id

(* C4 (as claimed): the look-up/compare/write sequences of two overlapping *)
(* runs on the same (portal, external_id) record do not interleave; no     *)
(* run's write is lost (none fails, and the stored row is the content of   *)
(* the fingerprint it carries), and the record is inserted only once.      *)
C4_WritesSerialized ==
    /\ ~Interleaved
    /\ \A r \in DOMAIN p_result : \A i \in 1..Len(p_result[r]) : p_result[r][i] # "RAISED"
    /\ \A row \in opps : row.fingerprint = RowFingerprint(row)
    /\ \A row \in opps : Cardinality(Existing(opps, row.external_id)) = 1

----------------------------------------------------------------------------
(* The scheduler: execute_scheduled_job and LockManager.  Executions of    *)
(* one job run in scheduler processes; each process has one holder_id      *)
(* (SchedulerService.__init__) and one event loop, so two executions of    *)
(* the same process interleave only where the code awaits, while           *)
(* executions of different processes interleave at every database          *)
(* statement.                                                              *)

Execs == 1..MaxExecs
Procs == 1..MaxProcs

\* A run_locks row
RunLock(holder, expires) == [holder_id |-> holder, expires_at |-> expires]

\* The keyword arguments the signature of run_portal_scrape accepts
RunPortalScrapeKwargs == {"max_pages", "follow_details", "dry_run"}

\* The call run_portal_scrape(portal_name, **kwargs): a keyword the signature
\* does not have raises TypeError before the coroutine is created
CallRaisesTypeError(kwargs) == ~(kwargs \subseteq RunPortalScrapeKwargs)

schedFrame == <<runVars, reVars, pVars, rVars, fVars, xVars, dVars, gVars, vVars>>

\* Which process runs which execution.  The processes differ in nothing but
\* their holder_id, so they are numbered in the order of their first
\* execution.
ProcsOfExecs ==
    {f \in [Execs -> Procs] :
        /\ f[1] = 1
        /\ \A e \in Execs \ {1} : \E o \in 1..(e - 1) : f[e] <= f[o] + 1}

\* The lock table starts empty, or holds the row a killed process left
InitSched ==
    /\ RunIdle
    /\ ReIdle
    /\ PersistIdle
    /\ RateIdle
    /\ FetchIdle
    /\ ExtractIdle
    /\ DryCompareIdle
    /\ PaginateIdle
    /\ DiffIdle
    /\ s_enabled \in BOOLEAN
    /\ s_proc \in ProcsOfExecs
    /\ s_pc = [e \in Execs |-> "start"]
    /\ s_seen = [e \in Execs |-> {}]
    /\ s_read_at = [e \in Execs |-> 0]
    /\ s_status = [e \in Execs |-> "COMPLETED"]
    /\ s_lock \in {{}, {RunLock(0, 0)}}
    /\ s_active = [q \in Procs |-> 0]
    /\ s_now = 1
    /\ s_last_status = ""
    /\ s_runs = [e \in Execs |-> <<>>]

\* The event loop of the execution's process is free for it to run
CanRun(e) == s_active[s_proc[e]] \in {0, e}

\* execute_scheduled_job up to the lock: the job is looked up (awaits); a
\* missing or disabled job ends the execution
SchedLookupJob(e) ==
    /\ s_pc[e] = "start"
    /\ CanRun(e)
    /\ s_pc' = [s_pc EXCEPT ![e] = IF s_enabled THEN "acquire" ELSE "done"]
    /\ UNCHANGED <<schedFrame, s_runs, s_enabled, s_proc, s_seen, s_read_at, s_status, s_lock,
                   s_active, s_now, s_last_status>>

\* LockManager.acquire, the SELECT: now is read first
AcquireSelect(e) ==
    /\ s_pc[e] = "acquire"
    /\ CanRun(e)
    /\ s_seen' = [s_seen EXCEPT ![e] = s_lock]
    /\ s_read_at' = [s_read_at EXCEPT ![e] = s_now]
    /\ s_pc' = [s_pc EXCEPT ![e] = "acquire_write"]
    /\ s_active' = [s_active EXCEPT ![s_proc[e]] = e]
    /\ UNCHANGED <<schedFrame, s_runs, s_enabled, s_proc, s_status, s_lock, s_now, s_last_status>>

\* A variant of the test of acquire that never finds the lock held
LockNeverHeld(lock, holder_id, t) == FALSE

\* LockManager.acquire: `lock.expires_at > now and lock.holder_id != holder_id`
LockHeldByOther(lock, holder_id, t) ==
    lock.expires_at > t /\ lock.holder_id # holder_id

\* LockManager.acquire, after the SELECT: a live lock of another holder
\* returns False (the execution is skipped); otherwise the row is updated or
\* inserted and committed.  The UPDATE of a row that is gone and the INSERT
\* of a second row of the same lock_name raise.
AcquireWrite(e) ==
    /\ s_pc[e] = "acquire_write"
    /\ CanRun(e)
    /\ LET holder == s_proc[e]
           lock == CHOOSE l \in s_seen[e] : TRUE
           mine == RunLock(holder, s_read_at[e] + TtlTicks)
       IN IF s_seen[e] # {}
          THEN IF LockHeldByOther(lock, holder, s_read_at[e])
               THEN /\ s_pc' = [s_pc EXCEPT ![e] = "done"]
                    /\ s_active' = [s_active EXCEPT ![s_proc[e]] = 0]
                    /\ UNCHANGED s_lock
               ELSE IF s_lock = {}
                    THEN /\ s_pc' = [s_pc EXCEPT ![e] = "raised"]
                         /\ s_active' = [s_active EXCEPT ![s_proc[e]] = 0]
                         /\ UNCHANGED s_lock
                    ELSE /\ s_lock' = {mine}
                         /\ s_pc' = [s_pc EXCEPT ![e] = "scraping"]
                         /\ UNCHANGED s_active
          ELSE IF s_lock # {}
               THEN /\ s_pc' = [s_pc EXCEPT ![e] = "raised"]
                    /\ s_active' = [s_active EXCEPT ![s_proc[e]] = 0]
                    /\ UNCHANGED s_lock
               ELSE /\ s_lock' = {mine}
                    /\ s_pc' = [s_pc EXCEPT ![e] = "scraping"]
                    /\ UNCHANGED s_active
    /\ UNCHANGED <<schedFrame, s_runs, s_enabled, s_proc, s_seen, s_read_at, s_status, s_now,
                   s_last_status>>

\* The try block: `for portal_name in portals: await run_portal_scrape(
\* portal_name, run_type="scheduled")`.  When the call raises TypeError no
\* run is started and status becomes FAILED.  Otherwise ScrapeRunner.run
\* returns with its record COMPLETED or FAILED (it catches its exceptions),
\* which leaves status COMPLETED, or raises with its record still RUNNING.
\* Either way the execution goes on to _update_job_status, which awaits.
RunPortalScrapes(e) ==
    /\ s_pc[e] = "scraping"
    /\ CanRun(e)
    /\ IF CallRaisesTypeError({"run_type"})
       THEN /\ s_status' = [s_status EXCEPT ![e] = "FAILED"]
            /\ UNCHANGED s_runs
       ELSE \E run_db_status \in {"COMPLETED", "FAILED", "RUNNING"} :
              /\ s_runs' = [s_runs EXCEPT ![e] = Append(@, run_db_status)]
              /\ s_status' = [s_status EXCEPT ![e] =
                                IF run_db_status = "RUNNING" THEN "FAILED" ELSE "COMPLETED"]
    /\ s_pc' = [s_pc EXCEPT ![e] = "update_status"]
    /\ s_active' = [s_active EXCEPT ![s_proc[e]] = 0]
    /\ UNCHANGED <<schedFrame, s_enabled, s_proc, s_seen, s_read_at, s_lock, s_now,
                   s_last_status>>

\* A variant in which an exception of _update_job_status leaves
\* execute_scheduled_job at once
UpdateJobStatus_NoFinally(e) ==
    /\ s_pc[e] = "update_status"
    /\ CanRun(e)
    /\ \E update_raises \in BOOLEAN :
         IF update_raises
         THEN /\ s_pc' = [s_pc EXCEPT ![e] = "raised"]
              /\ UNCHANGED s_last_status
         ELSE /\ s_pc' = [s_pc EXCEPT ![e] = "release"]
              /\ s_last_status' = s_status[e]
    /\ UNCHANGED <<schedFrame, s_runs, s_enabled, s_proc, s_seen, s_read_at, s_status, s_lock,
                   s_active, s_now>>

\* _update_job_status (awaits), in the except or the else branch.  When it
\* raises (the database is unavailable), nothing is stored and the exception
\* leaves the try statement through the finally block.
UpdateJobStatus(e) ==
    /\ s_pc[e] = "update_status"
    /\ CanRun(e)
    /\ \E update_raises \in BOOLEAN :
         IF update_raises
         THEN /\ s_pc' = [s_pc EXCEPT ![e] = "release_exc"]
              /\ UNCHANGED s_last_status
         ELSE /\ s_pc' = [s_pc EXCEPT ![e] = "release"]
              /\ s_last_status' = s_status[e]
    /\ UNCHANGED <<schedFrame, s_runs, s_enabled, s_proc, s_seen, s_read_at, s_status, s_lock,
                   s_active, s_now>>

\* The finally block: LockManager.release deletes the row if this holder's;
\* then the pending exception, if any, leaves execute_scheduled_job
LockRelease(e) ==
    /\ s_pc[e] \in {"release", "release_exc"}
    /\ CanRun(e)
    /\ s_lock' = {l \in s_lock : l.holder_id # s_proc[e]}
    /\ s_pc' = [s_pc EXCEPT ![e] = IF s_status[e] = "FAILED" \/ s_pc[e] = "release_exc"
                                   THEN "raised" ELSE "done"]
    /\ UNCHANGED <<schedFrame, s_runs, s_enabled, s_proc, s_seen, s_read_at, s_status, s_active,
                   s_now, s_last_status>>

\* Time passes
SchedTick ==
    /\ s_now < MaxSchedNow
    /\ s_now' = s_now + 1
    /\ UNCHANGED <<schedFrame, s_runs, s_enabled, s_proc, s_pc, s_seen, s_read_at, s_status,
                   s_lock, s_active, s_last_status>>

NextSched ==
    \/ \E e \in Execs : SchedLookupJob(e)
    \/ \E e \in Execs : AcquireSelect(e)
    \/ \E e \in Execs : AcquireWrite(e)
    \/ \E e \in Execs : RunPortalScrapes(e)
    \/ \E e \in Execs : UpdateJobStatus(e)
    \/ \E e \in Execs : LockRelease(e)
    \/ SchedTick

SpecSched == InitSched /\ [][NextSched]_vars

(* C2 (as claimed): while an execution that acquired the job's run lock is *)
(* in its portal scrapes, no other execution of the job, of the same or of *)
(* another scheduler process, is in its portal scrapes.                    *)
C2_NoOverlap ==
    \A e1, e2 \in DOMAIN s_pc :
        (s_pc[e1] = "scraping" /\ s_pc[e2] = "scraping") => e1 = e2

\* Execution e is inside acquire and the row it read is a live lock of
\* another holder: acquire is about to return False
LockRefused(e) ==
    /\ s_pc[e] = "acquire_write"
    /\ \E l \in s_seen[e] : l.expires_at > s_read_at[e] /\ l.holder_id # s_proc[e]

AcquireReturnsTrue(e) == s_pc[e] = "acquire_write" /\ s_pc'[e] = "scraping"

\* The table holds an unexpired lock that another holder acquired
LiveLockOfOther(e) ==
    \E l \in s_lock : l.holder_id # s_proc[e] /\ l.expires_at > s_now

(* C25 (as claimed): of the concurrent acquire calls of distinct holders   *)
(* at most one returns True while the lock is unexpired: no acquire        *)
(* returns True while the table holds an unexpired lock of another holder. *)
C25_OneHolderAcquires ==
    [][\A e \in DOMAIN s_pc : AcquireReturnsTrue(e) => ~LiveLockOfOther(e)]_vars

\* A step in which _update_job_status stores the status of execution e
StatusRecorded(e) == s_pc[e] = "update_status" /\ s_pc'[e] = "release"

\* Every portal run of execution e ended with status COMPLETED
AllPortalRunsCompleted(e) ==
    \A i \in DOMAIN s_runs[e] : s_runs[e][i] = "COMPLETED"

(* C29 (as claimed): the last_status recorded by an execution that         *)
(* acquired the lock is COMPLETED exactly when every one of its portal     *)
(* runs ended with status COMPLETED, and FAILED otherwise.                 *)
C29_LastStatusOfPortalRuns ==
    [][\A e \in DOMAIN s_pc :
          StatusRecorded(e) =>
              s_last_status' = IF AllPortalRunsCompleted(e) THEN "COMPLETED" ELSE "FAILED"]_vars

\* The positions of execute_scheduled_job between acquire and the end of
\* the finally block
HoldingLock == {"scraping", "update_status", "release", "release_exc"}

(* C26: every execution that acquired the run lock releases it before it   *)
(* finishes, whatever its portal runs and its job-status update did: the   *)
(* step by which it finishes leaves no lock row of its holder.             *)
C26_AcquiredLockReleased ==
    [][\A e \in DOMAIN s_pc :
          (s_pc[e] \in HoldingLock /\ s_pc'[e] \notin HoldingLock) =>
              \A l \in s_lock' : l.holder_id # s_proc[e]]_vars

\* The only execution that ran acquired the lock, its job-status update
\* raised, and the lock is gone before its expiry
C26_Witness ==
    \E e \in DOMAIN s_pc :
        /\ s_pc[e] = "raised"
        /\ \A o \in DOMAIN s_pc \ {e} : s_pc[o] = "start"
        /\ s_last_status = ""
        /\ s_read_at[e] + TtlTicks > s_now
        /\ s_lock = {}

----------------------------------------------------------------------------
(* The rate limiter (core/fetch/throttling.py) for one domain, and the     *)
(* requests made to that domain: through a ThrottledBackend, or through    *)
(* the backend ScrapeRunner._create_backend gives the portal plugin.       *)

Requests == 1..MaxRequests

\* Request 1 is a page fetch of a scrape run, made through the backend of
\* _create_backend; the others go through a ThrottledBackend
r_kind == [k \in Requests |-> IF k = 1 THEN "runner" ELSE "throttled"]

SetMax(S) == CHOOSE x \in S : \A y \in S : y <= x

\* _get_config(domain).max_concurrency
EffectiveConcurrency == IF r_config = 0 THEN DefaultMaxConcurrency ELSE r_config

rateFrame == <<runVars, reVars, pVars, sVars, fVars, xVars, dVars, gVars, vVars>>

InitRate ==
    /\ RunIdle
    /\ ReIdle
    /\ PersistIdle
    /\ SchedIdle
    /\ FetchIdle
    /\ ExtractIdle
    /\ DryCompareIdle
    /\ PaginateIdle
    /\ DiffIdle
    /\ r_sems = <<>>
    /\ r_current = 0
    /\ r_config = 0
    /\ r_limits = {DefaultMaxConcurrency}
    /\ r_nconf = 0
    /\ r_pc = [k \in Requests |-> "idle"]
    /\ r_sem = [k \in Requests |-> 0]
    /\ r_acquired = [k \in Requests |-> 0]
    /\ r_released = [k \in Requests |-> 0]
    /\ r_fetched = [k \in Requests |-> FALSE]

\* RateLimiter.configure_domain: the config is stored and a new semaphore
\* replaces the domain's semaphore
configure_domain(m) ==
    /\ r_nconf < MaxConfigs
    /\ r_nconf' = r_nconf + 1
    /\ r_config' = m
    /\ r_sems' = Append(r_sems, m)
    /\ r_current' = Len(r_sems) + 1
    /\ r_limits' = r_limits \cup {m}
    /\ UNCHANGED <<rateFrame, r_pc, r_sem, r_acquired, r_released, r_fetched>>

\* RateLimiter.acquire up to `await semaphore.acquire()` (the requests are
\* numbered in the order in which they call acquire): _get_semaphore
\* returns the domain's semaphore, creating it when absent.  A semaphore
\* with a free permit is taken without suspending; otherwise the request
\* waits on the semaphore object it was given.
GetSemaphore(k) ==
    /\ r_kind[k] = "throttled"
    /\ r_pc[k] = "idle"
    /\ \A j \in Requests : (j < k /\ r_kind[j] = "throttled") => r_pc[j] # "idle"
    /\ LET sems == IF r_current = 0 THEN Append(r_sems, EffectiveConcurrency) ELSE r_sems
           sem == IF r_current = 0 THEN Len(r_sems) + 1 ELSE r_current
       IN /\ r_current' = sem
          /\ r_sem' = [r_sem EXCEPT ![k] = sem]
          /\ IF sems[sem] > 0
             THEN /\ r_sems' = [sems EXCEPT ![sem] = @ - 1]
                  /\ r_pc' = [r_pc EXCEPT ![k] = "throttling"]
             ELSE /\ r_sems' = sems
                  /\ r_pc' = [r_pc EXCEPT ![k] = "waiting"]
    /\ UNCHANGED <<rateFrame, r_config, r_limits, r_nconf, r_acquired, r_released, r_fetched>>

\* `await semaphore.acquire()` returns to a waiting request: the semaphore
\* it waits on has a free permit
SemaphoreAcquire(k) ==
    /\ r_pc[k] = "waiting"
    /\ r_sems[r_sem[k]] > 0
    /\ r_sems' = [r_sems EXCEPT ![r_sem[k]] = @ - 1]
    /\ r_pc' = [r_pc EXCEPT ![k] = "throttling"]
    /\ UNCHANGED <<rateFrame, r_current, r_config, r_limits, r_nconf, r_sem, r_acquired,
                   r_released, r_fetched>>

\* The try block of acquire (the domain lock, the burst and delay sleeps)
\* ends: normally, and acquire returns to ThrottledBackend.fetch, which
\* calls backend.fetch; with an Exception, and the local
\* semaphore is released before the exception goes on; or with a
\* cancellation, which `except Exception` does not catch.  The local
\* `semaphore` is gone when acquire is left.
Throttle(k) ==
    /\ r_pc[k] = "throttling"
    /\ \E outcome \in {"returns", "raises", "cancelled"} :
         CASE outcome = "returns" ->
                /\ r_pc' = [r_pc EXCEPT ![k] = "fetching"]
                /\ r_acquired' = [r_acquired EXCEPT ![k] = @ + 1]
                /\ r_fetched' = [r_fetched EXCEPT ![k] = TRUE]
                /\ UNCHANGED r_sems
           [] outcome = "raises" ->
                /\ r_pc' = [r_pc EXCEPT ![k] = "failed"]
                /\ r_sems' = [r_sems EXCEPT ![r_sem[k]] = @ + 1]
                /\ UNCHANGED <<r_acquired, r_fetched>>
           [] OTHER ->
                /\ r_pc' = [r_pc EXCEPT ![k] = "cancelled"]
                /\ UNCHANGED <<r_sems, r_acquired, r_fetched>>
    /\ r_sem' = [r_sem EXCEPT ![k] = 0]
    /\ UNCHANGED <<rateFrame, r_current, r_config, r_limits, r_nconf, r_released>>

\* RateLimiter.release: the domain's current semaphore is released
release(sems) ==
    IF r_current # 0 THEN [sems EXCEPT ![r_current] = @ + 1] ELSE sems

\* backend.fetch returns or raises; the finally block of
\* ThrottledBackend.fetch calls rate_limiter.release
ThrottledFetchEnds(k) ==
    /\ r_kind[k] = "throttled"
    /\ r_pc[k] = "fetching"
    /\ \E outcome \in {"returns", "raises"} :
         r_pc' = [r_pc EXCEPT ![k] = IF outcome = "returns" THEN "done" ELSE "raised"]
    /\ r_sems' = release(r_sems)
    /\ r_released' = [r_released EXCEPT ![k] = @ + 1]
    /\ UNCHANGED <<rateFrame, r_current, r_config, r_limits, r_nconf, r_sem, r_acquired,
                   r_fetched>>

\* The portal plugin of a run fetches through the backend _create_backend
\* returned: an HttpBackend or a PlaywrightBackend, not wrapped
RunnerFetchStarts(k) ==
    /\ r_kind[k] = "runner"
    /\ r_pc[k] = "idle"
    /\ r_pc' = [r_pc EXCEPT ![k] = "fetching"]
    /\ r_fetched' = [r_fetched EXCEPT ![k] = TRUE]
    /\ UNCHANGED <<rateFrame, r_sems, r_current, r_config, r_limits, r_nconf, r_sem,
                   r_acquired, r_released>>

RunnerFetchEnds(k) ==
    /\ r_kind[k] = "runner"
    /\ r_pc[k] = "fetching"
    /\ \E outcome \in {"returns", "raises"} :
         r_pc' = [r_pc EXCEPT ![k] = IF outcome = "returns" THEN "done" ELSE "raised"]
    /\ UNCHANGED <<rateFrame, r_sems, r_current, r_config, r_limits, r_nconf, r_sem,
                   r_acquired, r_released, r_fetched>>

NextRate ==
    \/ \E m \in 1..MaxConcurrency : configure_domain(m)
    \/ \E k \in Requests : GetSemaphore(k)
    \/ \E k \in Requests : SemaphoreAcquire(k)
    \/ \E k \in Requests : Throttle(k)
    \/ \E k \in Requests : ThrottledFetchEnds(k)
    \/ \E k \in Requests : RunnerFetchStarts(k)
    \/ \E k \in Requests : RunnerFetchEnds(k)

SpecRate == InitRate /\ [][NextRate]_vars

\* The requests that hold a permit: acquire returned, release not yet called
PermitHolders ==
    {k \in DOMAIN r_pc : r_kind[k] = "throttled" /\ r_pc[k] = "fetching"}

(* C3 (as claimed): the requests that hold a permit of the domain are      *)
(* never more than the domain's max_concurrency - here the largest value   *)
(* the domain has been configured with so far, so that lowering the limit  *)
(* while permits are out does not count against the code.                  *)
C3_PermitsBounded ==
    r_limits # {} => Cardinality(PermitHolders) <= SetMax(r_limits)

(* C9 (as claimed): every fetch issued to the domain was preceded by one   *)
(* acquisition of a permit and, once it has returned or raised, was        *)
(* followed by exactly one release.                                        *)
C9_FetchHoldsPermit ==
    \A k \in DOMAIN r_pc :
        r_fetched[k] =>
            /\ r_acquired[k] = 1
            /\ r_pc[k] \in {"done", "raised"} => r_released[k] = 1

\* Every request through the rate limiter has finished: its fetch returned
\* or raised, or its acquire raised or was cancelled
AllRequestsFinished ==
    \A k \in DOMAIN r_pc :
        r_kind[k] = "throttled" => r_pc[k] \in {"done", "raised", "failed", "cancelled"}

\* Some acquire did not return normally
SomeAcquireFailed == \E k \in DOMAIN r_pc : r_pc[k] \in {"failed", "cancelled"}

(* C27 (as claimed): an acquire that raises or is cancelled leaves no      *)
(* permit held: once all requests have finished, the available permits of *)
(* the domain (whose limit was not reconfigured meanwhile) equal           *)
(* max_concurrency again.                                                  *)
C27_NoPermitLeftHeld ==
    (AllRequestsFinished /\ SomeAcquireFailed /\ r_nconf = 0) =>
        r_sems[r_current] = EffectiveConcurrency

----------------------------------------------------------------------------
(* One call of fetch on a backend: HttpBackend.fetch with its retry loop   *)
(* (tenacity's AsyncRetrying), or PlaywrightBackend.fetch.                 *)

\* What a request attempt can meet: a 2xx page, a 5xx status, a 429 status,
\* a blocking status (403, 406, 418, 451), a small page with a blocking
\* indicator, a timeout, another transport error, any other exception
Responses ==
    {"ok", "server_error", "rate_limited", "blocked_status", "blocked_content",
     "timeout", "transport_error", "other_error"}

\* The exception one attempt of HttpBackend.fetch ends with, "" when it
\* returns a FetchResult: _check_rate_limit comes before _check_blocked, and
\* a timeout is raised again as a TransportError
HttpAttempt(resp) ==
    CASE resp = "rate_limited" -> "RateLimitError"
      [] resp \in {"blocked_status", "blocked_content"} -> "BlockedError"
      [] resp \in {"timeout", "transport_error"} -> "TransportError"
      [] resp = "other_error" -> "Exception"
      [] OTHER -> ""

\* A variant of the retry predicate that retries every backend error
retry_if_any_backend_error(exc) ==
    exc \in {"TransportError", "RateLimitError", "BlockedError"}

\* retry=retry_if_exception_type((httpx.TransportError, RateLimitError))
retry_if_exception_type(exc) == exc \in {"TransportError", "RateLimitError"}

\* A variant of the stop condition that allows one attempt more
stop_after_one_more(attempt_number, limit) == attempt_number > limit

\* stop=stop_after_attempt(self.max_retries)
stop_after_attempt(attempt_number, limit) == attempt_number >= limit

\* The except clauses around the retry loop of HttpBackend.fetch
HttpRaises(exc) ==
    CASE exc = "BlockedError" -> "BlockedError"
      [] exc = "RateLimitError" -> "RateLimitError"
      [] OTHER -> "FetchError"

\* PlaywrightBackend.fetch: the exception it raises, "" when it returns
PlaywrightRaises(resp) ==
    CASE resp \in {"blocked_status", "blocked_content"} -> "BlockedError"
      [] resp = "timeout" -> "NavigationTimeout"
      [] resp \in {"transport_error", "other_error"} -> "BrowserError"
      [] OTHER -> ""

fetchFrame == <<runVars, reVars, pVars, sVars, rVars, xVars, dVars, gVars, vVars>>

InitFetch ==
    /\ RunIdle
    /\ ReIdle
    /\ PersistIdle
    /\ SchedIdle
    /\ RateIdle
    /\ ExtractIdle
    /\ DryCompareIdle
    /\ PaginateIdle
    /\ DiffIdle
    /\ f_backend \in {"http", "playwright"}
    /\ f_max_retries \in 0..MaxRetries
    /\ f_pc = "idle"
    /\ f_log = <<>>
    /\ f_raised = ""
    /\ f_status = ""

\* fetch is called
FetchBegin ==
    /\ f_pc = "idle"
    /\ f_pc' = "attempting"
    /\ UNCHANGED <<fetchFrame, f_backend, f_max_retries, f_log, f_raised, f_status>>

\* One request attempt of HttpBackend.fetch and what the retry loop does
\* with its outcome
HttpFetchAttempt ==
    /\ f_backend = "http"
    /\ f_pc = "attempting"
    /\ \E resp \in Responses :
         LET exc == HttpAttempt(resp)
             attempt_number == Len(f_log) + 1
         IN /\ f_log' = Append(f_log, resp)
            /\ IF exc = ""
               THEN /\ f_pc' = "returned"
                    /\ f_status' = resp
                    /\ UNCHANGED f_raised
               ELSE IF retry_if_exception_type(exc)
                       /\ ~stop_after_attempt(attempt_number, f_max_retries)
               THEN UNCHANGED <<f_pc, f_raised, f_status>>
               ELSE /\ f_pc' = "raised"
                    /\ f_raised' = HttpRaises(exc)
                    /\ UNCHANGED f_status
    /\ UNCHANGED <<fetchFrame, f_backend, f_max_retries>>

\* PlaywrightBackend.fetch: one navigation, no retry
PlaywrightFetch ==
    /\ f_backend = "playwright"
    /\ f_pc = "attempting"
    /\ \E resp \in Responses :
         LET exc == PlaywrightRaises(resp)
         IN /\ f_log' = Append(f_log, resp)
            /\ IF exc = ""
               THEN /\ f_pc' = "returned"
                    /\ f_status' = resp
                    /\ UNCHANGED f_raised
               ELSE /\ f_pc' = "raised"
                    /\ f_raised' = exc
                    /\ UNCHANGED f_status
    /\ UNCHANGED <<fetchFrame, f_backend, f_max_retries>>

NextFetch ==
    \/ FetchBegin
    \/ HttpFetchAttempt
    \/ PlaywrightFetch

SpecFetch == InitFetch /\ [][NextFetch]_vars

\* The responses the backends classify as blocked / anti-bot
BlockedResponses == {"blocked_status", "blocked_content"}

\* The failures that may pass: timeouts, connection errors, rate limiting
TransientResponses == {"timeout", "transport_error", "rate_limited"}

(* C10: a response classified as blocked is the last request attempt of    *)
(* its fetch, and the fetch raises BlockedError; a fetch that ends on a    *)
(* transient failure raises another error.                                 *)
C10_BlockedNeverRetried ==
    /\ \A i \in 1..Len(f_log) :
         f_log[i] \in BlockedResponses =>
            /\ i = Len(f_log)
            /\ f_pc = "raised"
            /\ f_raised = "BlockedError"
    /\ (f_pc = "raised" /\ f_log[Len(f_log)] \in TransientResponses)
          => f_raised # "BlockedError"

C10_Witness ==
    /\ f_backend = "http"
    /\ f_pc = "raised" /\ f_raised = "BlockedError"
    /\ Len(f_log) = 2 /\ f_log[1] \in TransientResponses
    /\ Len(f_log) < f_max_retries

\* Attempt i of the fetch was retried: another request attempt followed it
Retried(i) == i < Len(f_log)

\* The outcome of attempt i is settled: it was retried, or the fetch is over
Settled(i) == Retried(i) \/ f_pc \in {"returned", "raised"}

(* C11 (as claimed): an attempt of HttpBackend.fetch is retried exactly     *)
(* when it ended in a transient failure - a timeout or connection error, a *)
(* 5xx response, a 429 response - and attempts remain.                     *)
C11_RetriedIffTransient ==
    f_backend = "http" =>
        \A i \in 1..Len(f_log) :
            Settled(i) =>
                (Retried(i) <=>
                    (/\ f_log[i] \in TransientResponses \cup {"server_error"}
                     /\ i < f_max_retries))

(* C19 (as claimed): one fetch call makes at most max_retries request     *)
(* attempts.                                                               *)
C19_AttemptsWithinMaxRetries == Len(f_log) <= f_max_retries

\* The attempts stop_after_attempt(max_retries) allows: the first attempt is
\* always made
AttemptsAllowed == IF f_max_retries < 1 THEN 1 ELSE f_max_retries

(* C19 (amended): one fetch call makes at most max(1, max_retries) request *)
(* attempts, however many of them fail transiently, and once it has made   *)
(* that many it has returned a result or raised.                           *)
C19_AttemptsBounded ==
    /\ Len(f_log) <= AttemptsAllowed
    /\ Len(f_log) = AttemptsAllowed => f_pc \in {"returned", "raised"}

\* Every allowed attempt failed transiently and the call raised
C19_Witness ==
    /\ f_backend = "http"
    /\ f_max_retries >= 2
    /\ Len(f_log) = f_max_retries
    /\ \A i \in 1..Len(f_log) : f_log[i] \in TransientResponses
    /\ f_pc = "raised"

----------------------------------------------------------------------------
(* The extraction pipeline: ExtractionPipeline.extract runs the extractors  *)
(* of its chain in order on one listing page.  Confidences and thresholds  *)
(* are written in thousandths (the extractors round to three decimals).    *)

MaxRecords == 2
MaxImportant == 1
MaxCardFields == 2

\* ExtractionResult.ok: `self.confidence > 0.3`
OkFloor == 300
\* heuristic_card.MIN_CARD_COUNT
MinCardCount == 3

\* The confidence_threshold settings examined: below, at and above the floor
\* of ExtractionResult.ok; 400 is the pipeline's default, 700 the default of
\* ExtractionConfig
Thresholds == {200, 300, 400, 700}

\* The canonical fields a linked-data block's properties can map to
JsonldFields == {"external_id", "title", "closing_at", "agency"}

\* The linked-data blocks of a page: none, or one item whose properties map
\* to the canonical fields `fields`
JsonldBlocks ==
    {[present |-> FALSE, fields |-> {}]}
        \cup {[present |-> TRUE, fields |-> fs] : fs \in SUBSET JsonldFields}

\* The tables of a page: `rows` data rows; the headers map `required` of
\* REQUIRED_FIELDS and `important` of IMPORTANT_FIELDS, all by exact or all
\* by fuzzy match, and `unmapped` headers map to nothing
Tables ==
    [rows : 0..MaxRecords, required : 0..2, important : 0..MaxImportant,
     exact : BOOLEAN, unmapped : 0..1]

\* The repeating cards of a page: none, or MinCardCount cards that each carry
\* `fields` of the important fields, with or without an id or a title
Cards ==
    {[cards |-> 0, id_or_title |-> FALSE, fields |-> 0]}
        \cup [cards : {MinCardCount}, id_or_title : BOOLEAN, fields : 0..MaxCardFields]

Min(a, b) == IF a < b THEN a ELSE b

\* round(a / b), for a >= 0 and b > 0
RoundDiv(a, b) == (2 * a + b) \div (2 * b)

ExtractionResult(extractor, records, confidence) ==
    [extractor |-> extractor, records |-> records, confidence |-> confidence]

\* ExtractionResult.ok
ok(result) == result.records > 0 /\ result.confidence > OkFloor

\* StructuredExtractor.extract on a page whose only structured data is its
\* linked-data block.  _map_jsonld_to_canonical adds the item itself under
\* "_jsonld", so a block always gives a record with one more truthy value
\* than it has mapped fields; the confidence is min(0.95, 0.5 + avg/20).
StructuredExtractor(page) ==
    IF page.jsonld.present
    THEN LET avg_fields == Cardinality(page.jsonld.fields) + 1
         IN ExtractionResult("structured", 1, Min(950, 500 + 50 * avg_fields))
    ELSE ExtractionResult("structured", 0, 0)

\* HeuristicTableExtractor._calculate_confidence for a table with records
TableConfidence(t) ==
    LET mapped == t.required + t.important
        headers == mapped + t.unmapped
        match == IF t.exact THEN 10 ELSE 7
    IN IF headers = 0 THEN 0
       ELSE RoundDiv(30 * mapped * match
                       + (200 * t.required + 50 * t.important + 20 * Min(5, t.rows))
                           * headers,
                     headers)

\* HeuristicTableExtractor.extract on a page with one table: a table without
\* a required field or without rows, or whose result is not ok, gives the
\* empty result
HeuristicTableExtractor(page) ==
    LET t == page.table
        result == IF t.required = 0 \/ t.rows = 0
                  THEN ExtractionResult("heuristic_table", 0, 0)
                  ELSE ExtractionResult("heuristic_table", t.rows, TableConfidence(t))
    IN IF ok(result) THEN result ELSE ExtractionResult("heuristic_table", 0, 0)

\* HeuristicCardExtractor.extract: the records are returned whatever their
\* confidence
HeuristicCardExtractor(page) ==
    LET c == page.card
        required_score == IF c.id_or_title THEN 1 ELSE 0
    IN IF c.cards = 0 \/ (c.fields = 0 /\ ~c.id_or_title)
       THEN ExtractionResult("heuristic_card", 0, 0)
       ELSE ExtractionResult("heuristic_card", c.cards,
                RoundDiv(200 * c.fields + 1200 * required_score
                           + 120 * Min(5, c.cards), 3))

\* ExtractionPipeline.extractors: the default chain
extractors == <<"structured", "heuristic_table", "heuristic_card">>

\* extractor.extract(html, url) for the extractor called `name`
ExtractorResult(name, page) ==
    IF name = "structured" THEN StructuredExtractor(page)
    ELSE IF name = "heuristic_table" THEN HeuristicTableExtractor(page)
    ELSE HeuristicCardExtractor(page)

\* A variant of the acceptance test that takes the first result with records
Accepts_AnyRecords(result, threshold) == result.records > 0

\* The acceptance test of the pipeline's loop
Accepts(result, threshold) == ok(result) /\ result.confidence >= threshold

extractFrame == <<runVars, reVars, pVars, sVars, rVars, fVars, dVars, gVars, vVars>>

InitExtract ==
    /\ RunIdle
    /\ ReIdle
    /\ PersistIdle
    /\ SchedIdle
    /\ RateIdle
    /\ FetchIdle
    /\ DryCompareIdle
    /\ PaginateIdle
    /\ DiffIdle
    /\ x_threshold \in Thresholds
    /\ x_page \in [jsonld : JsonldBlocks, table : Tables, card : Cards]
    /\ x_pc = "idle"
    /\ x_idx = 0
    /\ x_ret = <<>>

\* extract() is called
ExtractBegin ==
    /\ x_pc = "idle"
    /\ x_pc' = "running"
    /\ UNCHANGED <<extractFrame, x_threshold, x_page, x_idx, x_ret>>

\* One iteration of `for extractor in self.extractors`
RunExtractor ==
    /\ x_pc = "running"
    /\ x_idx < Len(extractors)
    /\ x_idx' = x_idx + 1
    /\ LET result == ExtractorResult(extractors[x_idx + 1], x_page)
       IN IF Accepts(result, x_threshold)
          THEN /\ x_ret' = result
               /\ x_pc' = "returned"
          ELSE UNCHANGED <<x_ret, x_pc>>
    /\ UNCHANGED <<extractFrame, x_threshold, x_page>>

\* The loop is exhausted: the pipeline_failed result, which carries the
\* error "All extraction strategies failed"
PipelineFailed ==
    /\ x_pc = "running"
    /\ x_idx = Len(extractors)
    /\ x_ret' = ExtractionResult("pipeline_failed", 0, 0)
    /\ x_pc' = "returned"
    /\ UNCHANGED <<extractFrame, x_threshold, x_page, x_idx>>

NextExtract ==
    \/ ExtractBegin
    \/ RunExtractor
    \/ PipelineFailed

SpecExtract == InitExtract /\ [][NextExtract]_vars

\* The results of the chain whose record count and confidence meet the
\* threshold, by position
MeetsThreshold(i) ==
    LET result == ExtractorResult(extractors[i], x_page)
    IN result.records >= 1 /\ result.confidence >= x_threshold

OkAndMeetsThreshold(i) ==
    LET result == ExtractorResult(extractors[i], x_page)
    IN /\ result.records >= 1
       /\ result.confidence > OkFloor
       /\ result.confidence >= x_threshold

TableAndIncompleteJsonld ==
    /\ x_page.table.required = 2
    /\ x_page.table.rows >= 1
    /\ HeuristicTableExtractor(x_page).confidence >= x_threshold
    /\ x_page.jsonld.present
    /\ "title" \notin x_page.jsonld.fields

(* C14 (as claimed): on a page with a valid table and a linked-data block  *)
(* without title the structured result does not clear the threshold and    *)
(* the pipeline returns the table extractor's result.                      *)
C14_FallsThroughToTable ==
    (x_pc = "returned" /\ TableAndIncompleteJsonld) =>
        /\ StructuredExtractor(x_page).confidence < x_threshold
        /\ x_ret = HeuristicTableExtractor(x_page)

----------------------------------------------------------------------------
(* A dry run and a persisting run fed the same extracted items, each from  *)
(* its own copy of the same initial store, item by item at the same clock  *)
(* reading.                                                                *)

MaxDryItems == 3

\* The tables and the session of a run that starts from `store`
RunStore(store) == [opps |-> store, events |-> EmptyBag, pending |-> {}]

\* A variant of the dry run's step that classifies without the look-up
DryRunItem_NoLookup(st, raw, t) ==
    [type |-> "NEW", opps |-> st.opps, events |-> st.events, pending |-> st.pending]

\* _persist_opportunity in a run with dry_run = True
DryRunItem(st, raw, t) == _persist_opportunity(TRUE, st.opps, st.events, st.pending, raw, t)

\* _persist_opportunity in a run with dry_run = False
RealRunItem(st, raw, t) == _persist_opportunity(FALSE, st.opps, st.events, st.pending, raw, t)

dryFrame == <<runVars, reVars, pVars, sVars, rVars, fVars, xVars, gVars, vVars>>

InitDryCompare ==
    /\ RunIdle
    /\ ReIdle
    /\ PersistIdle
    /\ SchedIdle
    /\ RateIdle
    /\ FetchIdle
    /\ ExtractIdle
    /\ PaginateIdle
    /\ DiffIdle
    /\ d_items \in {ListingItems(r) : r \in SeqsUpTo(ExtractedRecords, MaxDryItems)} \ {<<>>}
    /\ d_idx = 1
    /\ \E store \in BaselineStores :
         /\ d_dry = RunStore(store)
         /\ d_real = RunStore(store)
    /\ d_types = << <<>>, <<>> >>
    /\ d_now = 1

\* The next item goes through _persist_opportunity in both runs
DryCompareItem ==
    /\ d_idx >= 1
    /\ d_idx <= Len(d_items)
    /\ LET dry == DryRunItem(d_dry, d_items[d_idx], d_now)
           real == RealRunItem(d_real, d_items[d_idx], d_now)
       IN /\ d_dry' = [opps |-> dry.opps, events |-> dry.events, pending |-> dry.pending]
          /\ d_real' = [opps |-> real.opps, events |-> real.events, pending |-> real.pending]
          /\ d_types' = <<Append(d_types[1], dry.type), Append(d_types[2], real.type)>>
    /\ d_idx' = d_idx + 1
    /\ UNCHANGED <<dryFrame, d_items, d_now>>

\* Time passes between two items
DryCompareTick ==
    /\ d_idx >= 1
    /\ d_idx <= Len(d_items)
    /\ d_now < MaxNow
    /\ d_now' = d_now + 1
    /\ UNCHANGED <<dryFrame, d_items, d_idx, d_dry, d_real, d_types>>

NextDryCompare ==
    \/ DryCompareItem
    \/ DryCompareTick

SpecDryCompare == InitDryCompare /\ [][NextDryCompare]_vars

\* The external_id item i of the sequence is stored under
DryItemId(i) == normalize_opportunity(d_items[i], d_now).external_id

\* No earlier item of the sequence carries the external_id of item i
FirstOccurrence(i) == \A j \in 1..(i - 1) : DryItemId(j) # DryItemId(i)

(* C17 (as claimed): for the same initial store and the same sequence of   *)
(* items the dry run returns for every item the classification the         *)
(* persisting run returns.                                                 *)
C17_SameClassification ==
    \A i \in 1..Len(d_types[1]) : d_types[1][i] = d_types[2][i]

(* C17 (amended): the dry run returns the classification the persisting    *)
(* run returns for every item whose external_id no earlier item of the     *)
(* sequence carries.                                                       *)
C17_SameClassificationOfFirstOccurrences ==
    \A i \in 1..Len(d_types[1]) :
        FirstOccurrence(i) => d_types[1][i] = d_types[2][i]

\* Two items with different identifiers, the first one stored with other
\* content: UPDATED then NEW in both runs
C17_Witness ==
    /\ Len(d_types[1]) >= 2
    /\ FirstOccurrence(2)
    /\ d_types[1][1] = "UPDATED" /\ d_types[2][1] = "UPDATED"
    /\ d_types[1][2] = "NEW" /\ d_types[2][2] = "NEW"

----------------------------------------------------------------------------
(* The pagination loop of a run (scrape_all_pages of PortalPlugin and of   *)
(* SearchFormPortal) with the caller's max_pages told apart from None, and *)
(* the time the run has taken.                                             *)

MaxCapArg == 2
MaxConfigPages == 2
MaxListingPages == 3
\* the schedule's max_runtime_minutes, in clock ticks
MaxRuntimeTicks == 2

\* run(max_pages=...): None, or an integer
MaxPagesArgs ==
    {[given |-> FALSE, value |-> 0]} \cup [given : {TRUE}, value : 0..MaxCapArg]

\* `max_pages or self.config.discovery.pagination.max_pages`
MaxPagesOrConfig(arg, config) ==
    IF arg.given /\ arg.value # 0 THEN arg.value ELSE config

\* The loop conditions: `while url and page_num < max_pages` and, in
\* SearchFormPortal, `while page_num < max_pages` (its breaks clear g_url)
PaginateContinues ==
    /\ g_url # 0
    /\ g_page_num < MaxPagesOrConfig(g_arg, g_config)

paginateFrame == <<runVars, reVars, pVars, sVars, rVars, fVars, xVars, dVars, vVars>>

InitPaginate ==
    /\ RunIdle
    /\ ReIdle
    /\ PersistIdle
    /\ SchedIdle
    /\ RateIdle
    /\ FetchIdle
    /\ ExtractIdle
    /\ DryCompareIdle
    /\ DiffIdle
    /\ g_plugin \in {"generic_table", "search_form"}
    /\ g_arg \in MaxPagesArgs
    /\ g_config \in 1..MaxConfigPages
    /\ g_site \in 1..MaxListingPages
    /\ g_url = 1
    /\ g_page_num = 0
    /\ g_fetched = 0
    /\ g_elapsed = 0
    /\ g_pc = "loop"

\* One iteration: the page is fetched and handed to _execute_scrape, which
\* processes its items before the generator is resumed; the fetch and the
\* processing take time.  A page whose fetch failed carries no next link;
\* SearchFormPortal also stops after a page with errors or without items.
PaginateFetch ==
    /\ g_pc = "loop"
    /\ PaginateContinues
    /\ g_page_num' = g_page_num + 1
    /\ g_fetched' = g_fetched + 1
    /\ \E outcome \in {"items", "empty", "failed"} :
         LET next == IF g_url < g_site THEN g_url + 1 ELSE 0
             stops == \/ outcome = "failed"
                      \/ g_plugin = "search_form" /\ outcome = "empty"
         IN g_url' = IF stops THEN 0 ELSE next
    /\ \E dt \in 0..MaxRuntimeTicks : g_elapsed' = Min(g_elapsed + dt, MaxRuntimeTicks + 1)
    /\ UNCHANGED <<paginateFrame, g_plugin, g_arg, g_config, g_site, g_pc>>

\* The loop condition fails: the generator is exhausted
PaginateEnd ==
    /\ g_pc = "loop"
    /\ ~PaginateContinues
    /\ g_pc' = "done"
    /\ UNCHANGED <<paginateFrame, g_plugin, g_arg, g_config, g_site, g_url, g_page_num,
                   g_fetched, g_elapsed>>

NextPaginate ==
    \/ PaginateFetch
    \/ PaginateEnd

SpecPaginate == InitPaginate /\ [][NextPaginate]_vars

(* C18 (as claimed): a page is fetched only while the run's page budget    *)
(* and its time budget are both unexhausted.                               *)
C18_FetchWithinBudgets ==
    [][g_fetched' > g_fetched =>
          /\ g_page_num < MaxPagesOrConfig(g_arg, g_config)
          /\ g_elapsed < MaxRuntimeTicks]_vars

\* The page cap the claim names: the caller's max_pages when one is given,
\* otherwise the configured one
CapInForce == IF g_arg.given THEN g_arg.value ELSE g_config

(* C20 (as claimed): the number of listing pages fetched in a run never    *)
(* exceeds the caller's max_pages when one is given, and otherwise the     *)
(* portal's configured pagination max_pages.                               *)
C20_FetchedWithinCap == g_fetched <= CapInForce

----------------------------------------------------------------------------
(* Change tracking: detect_event_type on a previous and a current version, *)
(* and the diff that the update branch of _persist_opportunity computes    *)
(* from the stored row and the newly observed record.                      *)

Statuses == {"OPEN", "CLOSED", "AWARDED", "EXPIRED", "CANCELLED"}

\* The versions of one record: two high-tier fields of the fingerprint
\* (title, status), a medium-tier one (description), a high-tier field
\* outside the fingerprint (awardee) and a low-tier one (location)
Versions ==
    [external_id : {"A"}, title : {"T1", "T2"}, status : Statuses,
     description : {"", "D1"}, awardee : {"", "X"}, location : {"", "L1"},
     closing_at : {0}]

diffFrame == <<runVars, reVars, pVars, sVars, rVars, fVars, xVars, dVars, gVars>>

InitDiff ==
    /\ RunIdle
    /\ ReIdle
    /\ PersistIdle
    /\ SchedIdle
    /\ RateIdle
    /\ FetchIdle
    /\ ExtractIdle
    /\ DryCompareIdle
    /\ PaginateIdle
    /\ v_old \in Versions \cup {None}
    /\ v_new \in Versions
    /\ v_event = ""
    /\ v_diff = None

\* detect_event_type(old, new) is called on the two versions
DetectEventType ==
    /\ v_event = ""
    /\ v_event' = detect_event_type(v_old, v_new)
    /\ UNCHANGED <<diffFrame, v_old, v_new, v_diff>>

\* _persist_opportunity finds the stored row with another fingerprint and
\* computes the diff of the event from old_data and the new record
PersistComputesDiff ==
    /\ v_diff = None
    /\ v_old # None
    /\ compute_fingerprint(v_old) # compute_fingerprint(v_new)
    /\ v_diff' = compute_diff(old_data(v_old), v_new)
    /\ UNCHANGED <<diffFrame, v_old, v_new, v_event>>

NextDiff ==
    \/ DetectEventType
    \/ PersistComputesDiff

SpecDiff == InitDiff /\ [][NextDiff]_vars

\* Some field of the two versions differs
AnyFieldDiffers == \E field \in DOMAIN v_new : v_old[field] # v_new[field]

\* The status changed and the new status has an event of its own
TerminalTransition ==
    /\ v_old.status # v_new.status
    /\ v_new.status \in {"CLOSED", "AWARDED", "EXPIRED"}

HighTierChanged ==
    {field \in DOMAIN v_new :
        /\ field \in DOMAIN FIELD_SIGNIFICANCE
        /\ FIELD_SIGNIFICANCE[field] = "high"
        /\ v_old[field] # v_new[field]}

(* C23 (as claimed): the diff of an update is marked significant exactly   *)
(* when at least one high-tier field changed between the stored version    *)
(* and the newly observed version.                                         *)
C23_SignificantIffHighTierChanged ==
    v_diff # None => (v_diff.is_significant <=> HighTierChanged # {})
====
